---- MODULE Spec2Model ----
(***************************************************************************)
(* Model of script.js: the page controller of the CivicFix landing page.   *)
(* One page load: the script is evaluated top to bottom (lines 2-110),     *)
(* then the browser's event loop dispatches DOMContentLoaded, load, the    *)
(* 500ms timer, visibilitychange and click events to the listeners the     *)
(* script registered.  Every handler runs to completion (single thread).   *)
(***************************************************************************)
EXTENDS Integers, FiniteSets, Sequences, TLC

\* Bound on the number of visibilitychange events of one page load.
MaxVisChanges == 3

\* The four construction statements of initializeMap's try block:
\* 1 = L.map(..).setView(..)   2 = L.tileLayer(..).addTo(map)
\* 3 = L.marker(..).addTo(map) 4 = marker.bindPopup(..).openPopup()
NumMapSteps == 4

\* Bound on the timestamps of a navigation-timing entry.
MaxTime == 2

\* Elements the script looks up (lines 8-10, 44, 106).
ElementIds == {"menuToggle", "mobileSidebar", "closeBtn", "map", "reportBtn"}

\* Where a click can land.  "link" is an element matched by
\* closest(".mobile-nav a, .mobile-auth a"); "elsewhere" is any other node.
ClickTargets == {"menuToggle", "closeBtn", "link", "mobileSidebar",
                 "reportBtn", "elsewhere"}

ReadyStates == {"loading", "interactive", "complete"}

VARIABLES
    elems,        \* ids of the elements present in the document
    host,         \* capabilities of the host: L, performance and its functions
    readyState,   \* document.readyState
    hidden,       \* document.hidden
    pc,           \* position of the script's top-level evaluation
    evalReadyState, \* readyState read at line 61 ("unset" before)
    listeners,    \* listeners currently registered
    timer,        \* the setTimeout(initializeMap, 500): none / pending / fired
    drawer,       \* class markers of menuToggle, mobileSidebar; body overflow
    menuWired,    \* outcome of initializeMenu: no / inert / wired / threw
    wireHidden,   \* document.hidden when the deferred-init block ran
    seenVisible,  \* the page has been visible at or after that moment
    visChanges,   \* number of visibilitychange events so far
    initMapCalls, \* number of invocations of initializeMap
    firedVia,     \* trigger paths that have invoked initializeMap
    mapFx,        \* effects of initializeMap: maps, tiles, markers, popups, warns
    mapResult,    \* how the last initializeMap ended: none/skipped/built/failed
    marks,        \* performance marks recorded
    measures,     \* performance measures recorded
    reports,      \* number of "Performance Metrics:" reports logged
    location,     \* window.location.href
    errors,       \* uncaught exceptions, by the place that raised them
    navTiming,    \* the entry getEntriesByType("navigation")[0] yields, if any
    metrics,      \* the "Performance Metrics:" objects logged
    clickRun      \* what the last click did to the drawer: the run of
                  \* consecutive toggles it belongs to, or a dismissal

envVars   == <<elems, host, navTiming>>
docVars   == <<readyState, hidden, visChanges>>
mapVars   == <<initMapCalls, firedVia, mapFx, mapResult>>
perfVars  == <<marks, measures, reports, metrics>>
wireVars  == <<menuWired, wireHidden, timer>>
vars == <<elems, host, readyState, hidden, pc, evalReadyState, listeners,
          timer, drawer, menuWired, wireHidden, seenVisible, visChanges,
          initMapCalls, firedVia, mapFx, mapResult, marks, measures, reports, location,
          errors, navTiming, metrics, clickRun>>

----------------------------------------------------------------------------
\* Hosts: window.performance may be absent; when present each of its three
\* functions may be absent; a navigation entry exists only with the lookup.
Hosts ==
    { h \in [L : BOOLEAN, performance : BOOLEAN, mark : BOOLEAN,
             measure : BOOLEAN, getEntriesByType : BOOLEAN,
             navEntry : BOOLEAN] :
        /\ (~h.performance => ~h.mark /\ ~h.measure /\ ~h.getEntriesByType)
        /\ (~h.getEntriesByType => ~h.navEntry) }

\* The timestamps of a PerformanceNavigationTiming entry that lines 92-97
\* read, in the order the page's lifecycle sets them.  The entry has no
\* domLoading attribute (line 96 reads it all the same).
TimingFields == <<"fetchStart", "domainLookupStart", "domainLookupEnd",
                  "connectStart", "connectEnd", "requestStart",
                  "responseStart", "responseEnd", "domComplete">>

\* The entries as they read while the load listener runs: the timestamps up
\* to domComplete are set and ordered; loadEventEnd is still 0, being set
\* only when the load event has been dispatched to every listener.
NavEntries ==
    { [f \in {TimingFields[i] : i \in DOMAIN TimingFields}
           \cup {"loadEventEnd"} |->
         IF f = "loadEventEnd" THEN 0
         ELSE t[CHOOSE i \in DOMAIN TimingFields : TimingFields[i] = f]] :
      t \in { u \in [DOMAIN TimingFields -> 0..MaxTime] :
                \A i \in DOMAIN TimingFields :
                    i > 1 => u[i - 1] <= u[i] } }

\* One entry, for the behaviours that do not depend on its values.
SampleEntry ==
    [f \in {TimingFields[i] : i \in DOMAIN TimingFields}
         \cup {"loadEventEnd"} |-> IF f = "loadEventEnd" THEN 0 ELSE 1]

NoRun == [n |-> 0, from |-> FALSE, dismissed |-> FALSE]

DrawerClosed == [menuToggle |-> FALSE, mobileSidebar |-> FALSE, overflow |-> ""]
NoMapFx == [maps |-> 0, tiles |-> 0, markers |-> 0, popups |-> 0, warns |-> 0]

Init ==
    /\ elems \in SUBSET ElementIds
    /\ host \in Hosts
    /\ readyState \in ReadyStates
    /\ hidden \in BOOLEAN
    /\ pc = "markStart"
    /\ evalReadyState = "unset"
    /\ listeners = {}
    /\ timer = "none"
    /\ drawer = DrawerClosed
    /\ menuWired = "no"
    /\ wireHidden = "unset"
    /\ seenVisible = FALSE
    /\ visChanges = 0
    /\ initMapCalls = 0
    /\ firedVia = {}
    /\ mapFx = NoMapFx
    /\ mapResult = "none"
    /\ marks = {}
    /\ measures = {}
    /\ reports = 0
    /\ location = "index"
    /\ errors = {}
    /\ navTiming = SampleEntry
    /\ metrics = {}
    /\ clickRun = NoRun

----------------------------------------------------------------------------
\* Lines 2-4: the start mark.
EvalMarkStart ==
    /\ pc = "markStart"
    /\ marks' = IF host.performance /\ host.mark
                THEN marks \cup {"app-start"} ELSE marks
    /\ pc' = "deferInit"
    /\ UNCHANGED <<envVars, docVars, mapVars, wireVars, evalReadyState,
                   listeners, drawer, seenVisible, measures, reports,
                   metrics, clickRun, location, errors>>

----------------------------------------------------------------------------
\* Line 12: TRUE when initializeMenu returns early.
\* (MenuGuard_And: the guard written with && in place of ||.)
MenuGuard_And(noToggle, noSidebar) == noToggle /\ noSidebar
MenuGuard(noToggle, noSidebar) == noToggle \/ noSidebar

\* Lines 7-40: the listeners initializeMenu attaches and whether it throws.
\* Line 28 attaches toggleMenu, line 29 dereferences closeBtn (a TypeError
\* when getElementById returned null), line 32 attaches the document listener.
initializeMenu(els) ==
    IF MenuGuard("menuToggle" \notin els, "mobileSidebar" \notin els)
    THEN [added |-> {}, threw |-> FALSE, outcome |-> "inert"]
    ELSE IF "menuToggle" \notin els
    THEN [added |-> {}, threw |-> TRUE, outcome |-> "threw"]
    ELSE IF "closeBtn" \notin els
    THEN [added |-> {"toggleMenu"}, threw |-> TRUE, outcome |-> "threw"]
    ELSE [added |-> {"toggleMenu", "closeMenu", "docClick"},
          threw |-> FALSE, outcome |-> "wired"]

\* Lines 14-20.
\* (toggleMenu_OpensOnly: classList.add in place of classList.toggle.)
toggleMenu_OpensOnly(d) ==
    [menuToggle |-> TRUE, mobileSidebar |-> TRUE, overflow |-> "hidden"]
toggleMenu(d) ==
    LET open == ~d.mobileSidebar IN
    [menuToggle |-> ~d.menuToggle, mobileSidebar |-> open,
     overflow |-> IF open THEN "hidden" ELSE "auto"]

\* Lines 22-26.
\* (closeMenu_KeepsOverflow: closeMenu without line 25.)
closeMenu_KeepsOverflow(d) ==
    [d EXCEPT !.menuToggle = FALSE, !.mobileSidebar = FALSE]
closeMenu(d) ==
    [menuToggle |-> FALSE, mobileSidebar |-> FALSE, overflow |-> "auto"]

\* Lines 32-39: the delegated document click listener.
\* (docClick_LinksOnly: the listener without lines 36-38, as in the snippet
\* of lines 258-262.)
\* (docClick_OutsideCloses: click-outside-to-dismiss written as "the target
\* is not inside the drawer", which also matches the menu trigger.)
docClick_OutsideCloses(d, target) ==
    IF target \in {"link", "menuToggle", "reportBtn", "elsewhere"}
    THEN closeMenu(d) ELSE d
docClick_LinksOnly(d, target) ==
    IF target = "link" THEN closeMenu(d) ELSE d
docClick(d, target) ==
    LET d1 == IF target = "link" THEN closeMenu(d) ELSE d
    IN  IF target = "mobileSidebar" THEN closeMenu(d1) ELSE d1

\* Line 44: TRUE when initializeMap returns early.
\* (MapGuard_And: the guard written with && in place of ||.)
MapGuard_And(noL, noContainer) == noL /\ noContainer
MapGuard(noL, noContainer) == noL \/ noContainer

\* Lines 46, 55-57: what the try/catch does with an exception of its body.
\* (TryCatch_Rethrows: a catch clause that lets the exception through.)
TryCatch_Rethrows(threw) == [warn |-> FALSE, escaped |-> threw]
TryCatch(threw) == [warn |-> threw, escaped |-> FALSE]

\* Lines 43-58.  throwAt = 0: no construction statement throws; throwAt = k:
\* statement k throws.  Inside the try an undefined L is a ReferenceError and
\* a missing container makes L.map throw, both at statement 1.
initializeMap(fx, hasL, hasContainer, throwAt) ==
    IF MapGuard(~hasL, ~hasContainer)
    THEN [fx |-> fx, escaped |-> FALSE, result |-> "skipped"]
    ELSE
      LET at   == IF ~hasL \/ ~hasContainer THEN 1 ELSE throwAt
          done == IF at = 0 THEN NumMapSteps ELSE at - 1
          tc   == TryCatch(at # 0)
          B(b) == IF b THEN 1 ELSE 0
      IN  [fx |-> [maps    |-> fx.maps + B(done >= 1),
                   tiles   |-> fx.tiles + B(done >= 2),
                   markers |-> fx.markers + B(done >= 3),
                   popups  |-> fx.popups + B(done >= 4),
                   warns   |-> fx.warns + B(tc.warn)],
           escaped |-> tc.escaped,
           result |-> IF at = 0 THEN "built" ELSE "failed"]

\* Lines 65-71: the trigger path chosen in the DOMContentLoaded callback.
\* (ScheduleMap_Both: the timer set unconditionally, as in the snippet of
\* lines 203-208, with the visibility listener added when hidden.)
ScheduleMap_Both(isHidden) == [visibility |-> isHidden, timer |-> TRUE]
ScheduleMap(isHidden) == [visibility |-> isHidden, timer |-> ~isHidden]

\* Lines 66-68: a listener registered with {once: true} removes itself when
\* it is dispatched.
AfterOnce(ls) == ls \ {"visibilitychange"}

\* A property read: a number, or undefined when the entry has no such field.
Field(r, f) ==
    IF f \in DOMAIN r THEN [num |-> TRUE, v |-> r[f]]
    ELSE [num |-> FALSE, v |-> 0]

\* JavaScript's a - b: NaN (num FALSE) when an operand is undefined.
Minus(a, b) ==
    IF a.num /\ b.num THEN [num |-> TRUE, v |-> a.v - b.v]
    ELSE [num |-> FALSE, v |-> 0]

\* Lines 91-98: the object logged as "Performance Metrics:".
Metrics(r) ==
    [DNS      |-> Minus(Field(r, "domainLookupEnd"),
                        Field(r, "domainLookupStart")),
     TCP      |-> Minus(Field(r, "connectEnd"), Field(r, "connectStart")),
     Request  |-> Minus(Field(r, "responseStart"), Field(r, "requestStart")),
     Response |-> Minus(Field(r, "responseEnd"), Field(r, "responseStart")),
     DOMProcessing |-> Minus(Field(r, "domComplete"), Field(r, "domLoading")),
     TotalLoadTime |-> Minus(Field(r, "loadEventEnd"),
                             Field(r, "fetchStart"))]

\* Lines 85-99: the load callback.  measure throws when its start mark does
\* not exist; line 89 calls getEntriesByType without testing for it.
\* (loadCallback_NoEntryGuard: the report logged without the test of line 90.)
loadCallback_NoEntryGuard(h, mk, ms, rp) ==
    LET mk1 == mk \cup {"app-end"} IN
    IF "app-start" \notin mk
    THEN [marks |-> mk1, measures |-> ms, reports |-> rp, threw |-> TRUE]
    ELSE IF ~h.getEntriesByType
    THEN [marks |-> mk1, measures |-> ms \cup {"app-duration"},
          reports |-> rp, threw |-> TRUE]
    ELSE [marks |-> mk1, measures |-> ms \cup {"app-duration"},
          reports |-> rp + 1, threw |-> FALSE]
loadCallback(h, mk, ms, rp) ==
    LET mk1 == mk \cup {"app-end"} IN
    IF "app-start" \notin mk
    THEN [marks |-> mk1, measures |-> ms, reports |-> rp, threw |-> TRUE]
    ELSE IF ~h.getEntriesByType
    THEN [marks |-> mk1, measures |-> ms \cup {"app-duration"},
          reports |-> rp, threw |-> TRUE]
    ELSE [marks |-> mk1, measures |-> ms \cup {"app-duration"},
          reports |-> IF h.navEntry THEN rp + 1 ELSE rp, threw |-> FALSE]

ScriptFinished == pc \in {"done", "crashed"}
Visibility(h) == IF h THEN "hidden" ELSE "visible"

----------------------------------------------------------------------------
\* Lines 61-76, evaluated at the top level.  In the already-ready branch an
\* exception of initializeMenu ends the evaluation of the whole script.
\* (EvalDeferredInit_TimerAtTopLevel: setTimeout(initializeMap, 500) called
\* at the top level in the loading branch too, beside the registration of
\* the DOMContentLoaded callback.)
EvalDeferredInit_TimerAtTopLevel ==
    /\ pc = "deferInit"
    /\ evalReadyState' = readyState
    /\ IF readyState = "loading"
       THEN /\ listeners' = listeners \cup {"DOMContentLoaded"}
            /\ pc' = "perfWire"
            /\ timer' = "pending"
            /\ UNCHANGED <<menuWired, wireHidden, seenVisible, errors>>
       ELSE LET m == initializeMenu(elems) IN
            /\ menuWired' = m.outcome
            /\ listeners' = listeners \cup m.added
            /\ wireHidden' = Visibility(hidden)
            /\ seenVisible' = ~hidden
            /\ timer' = IF m.threw THEN timer ELSE "pending"
            /\ errors' = IF m.threw THEN errors \cup {"initializeMenu"}
                         ELSE errors
            /\ pc' = IF m.threw THEN "crashed" ELSE "perfWire"
    /\ UNCHANGED <<envVars, clickRun, docVars, mapVars, perfVars, drawer,
                   location>>
EvalDeferredInit ==
    /\ pc = "deferInit"
    /\ evalReadyState' = readyState
    /\ IF readyState = "loading"
       THEN /\ listeners' = listeners \cup {"DOMContentLoaded"}
            /\ pc' = "perfWire"
            /\ UNCHANGED <<wireVars, seenVisible, errors>>
       ELSE LET m == initializeMenu(elems) IN
            /\ menuWired' = m.outcome
            /\ listeners' = listeners \cup m.added
            /\ wireHidden' = Visibility(hidden)
            /\ seenVisible' = ~hidden
            /\ timer' = IF m.threw THEN timer ELSE "pending"
            /\ errors' = IF m.threw THEN errors \cup {"initializeMenu"}
                         ELSE errors
            /\ pc' = IF m.threw THEN "crashed" ELSE "perfWire"
    /\ UNCHANGED <<envVars, clickRun, docVars, mapVars, perfVars, drawer, location>>

\* Lines 79-101: the load listener is registered when mark and measure exist.
\* (EvalPerfWire_AfterReport: the redirect wiring of lines 106-108 placed
\* ahead of this block, so that its TypeError ends the script before it.)
EvalPerfWire_AfterReport ==
    /\ pc = "perfWire"
    /\ IF "reportBtn" \in elems
       THEN /\ listeners' = IF host.performance /\ host.mark /\ host.measure
                            THEN listeners \cup {"load"} ELSE listeners
            /\ pc' = "reportWire"
            /\ errors' = errors
       ELSE /\ listeners' = listeners
            /\ pc' = "crashed"
            /\ errors' = errors \cup {"reportBtn"}
    /\ UNCHANGED <<envVars, clickRun, docVars, mapVars, perfVars, wireVars,
                   evalReadyState, drawer, seenVisible, location>>
EvalPerfWire ==
    /\ pc = "perfWire"
    /\ listeners' = IF host.performance /\ host.mark /\ host.measure
                    THEN listeners \cup {"load"} ELSE listeners
    /\ pc' = "reportWire"
    /\ UNCHANGED <<envVars, clickRun, docVars, mapVars, perfVars, wireVars,
                   evalReadyState, drawer, seenVisible, location, errors>>

\* Lines 106-110: reportBtn is dereferenced without a test.
EvalReportWire ==
    /\ pc = "reportWire"
    /\ IF "reportBtn" \in elems
       THEN /\ listeners' = listeners \cup {"reportClick"}
            /\ pc' = "done"
            /\ errors' = errors
       ELSE /\ listeners' = listeners
            /\ pc' = "crashed"
            /\ errors' = errors \cup {"reportBtn"}
    /\ UNCHANGED <<envVars, clickRun, docVars, mapVars, perfVars, wireVars,
                   evalReadyState, drawer, seenVisible, location>>

----------------------------------------------------------------------------
\* One invocation of initializeMap by the trigger path `via`.
InvokeInitializeMap(via) ==
    \E throwAt \in 0..NumMapSteps :
        LET r == initializeMap(mapFx, host.L, "map" \in elems, throwAt) IN
        /\ initMapCalls' = initMapCalls + 1
        /\ firedVia' = firedVia \cup {via}
        /\ mapFx' = r.fx
        /\ mapResult' = r.result
        /\ errors' = IF r.escaped THEN errors \cup {"initializeMap"}
                     ELSE errors

\* Lines 62-72: the document finishes parsing; the callback runs if the
\* script registered it.  An exception of initializeMenu ends the callback.
DOMContentLoaded ==
    /\ ScriptFinished
    /\ readyState = "loading"
    /\ readyState' = "interactive"
    /\ IF "DOMContentLoaded" \in listeners
       THEN LET m == initializeMenu(elems)
                s == ScheduleMap(hidden)
            IN
            /\ menuWired' = m.outcome
            /\ wireHidden' = Visibility(hidden)
            /\ seenVisible' = ~hidden
            /\ errors' = IF m.threw THEN errors \cup {"initializeMenu"}
                         ELSE errors
            /\ listeners' =
                 IF m.threw THEN listeners \cup m.added
                 ELSE listeners \cup m.added \cup
                      (IF s.visibility THEN {"visibilitychange"} ELSE {})
            /\ timer' = IF ~m.threw /\ s.timer THEN "pending" ELSE timer
       ELSE UNCHANGED <<wireVars, seenVisible, errors, listeners>>
    /\ UNCHANGED <<envVars, clickRun, hidden, visChanges, mapVars, perfVars, pc,
                   evalReadyState, drawer, location>>

\* Line 70 / 75: the 500ms timer expires.
TimerFires ==
    /\ ScriptFinished
    /\ timer = "pending"
    /\ timer' = "fired"
    /\ InvokeInitializeMap("timer")
    /\ UNCHANGED <<envVars, clickRun, docVars, perfVars, pc, evalReadyState, listeners,
                   drawer, menuWired, wireHidden, seenVisible, location>>

\* The page is hidden or shown; lines 66-68 when the listener is registered.
VisibilityChange ==
    /\ ScriptFinished
    /\ visChanges < MaxVisChanges
    /\ visChanges' = visChanges + 1
    /\ hidden' = ~hidden
    /\ seenVisible' = (seenVisible \/ (wireHidden # "unset" /\ hidden))
    /\ IF "visibilitychange" \in listeners
       THEN /\ listeners' = AfterOnce(listeners)
            /\ InvokeInitializeMap("visibilitychange")
       ELSE UNCHANGED <<listeners, mapVars, errors>>
    /\ UNCHANGED <<envVars, clickRun, readyState, perfVars, pc, evalReadyState,
                   wireVars, drawer, location>>

\* Lines 84-100: the page has fully loaded.
LoadEvent ==
    /\ ScriptFinished
    /\ readyState = "interactive"
    /\ readyState' = "complete"
    /\ IF "load" \in listeners
       THEN LET r == loadCallback(host, marks, measures, reports) IN
            /\ marks' = r.marks
            /\ measures' = r.measures
            /\ reports' = r.reports
            /\ metrics' = IF r.reports > reports
                          THEN metrics \cup {Metrics(navTiming)}
                          ELSE metrics
            /\ errors' = IF r.threw THEN errors \cup {"load"} ELSE errors
       ELSE UNCHANGED <<perfVars, errors>>
    /\ UNCHANGED <<envVars, clickRun, hidden, visChanges, mapVars, wireVars, pc,
                   evalReadyState, listeners, drawer, seenVisible, location>>

\* Lines 108-110: the navigation target after a click on `target`.
\* (clickLocation_AnyClick: the handler attached to the document instead of
\* the button.)
clickLocation_AnyClick(loc, ls, target) ==
    IF "reportClick" \in ls THEN "/html/report.html" ELSE loc
clickLocation(loc, ls, target) ==
    IF target = "reportBtn" /\ "reportClick" \in ls
    THEN "/html/report.html" ELSE loc

\* TRUE when a click on `target` reaches closeMenu: through the listener of
\* line 29, or through the document listener on a link (line 33) or on the
\* drawer itself (line 36).
Dismisses(ls, target) ==
    \/ target = "closeBtn" /\ "closeMenu" \in ls
    \/ target \in {"link", "mobileSidebar"} /\ "docClick" \in ls

\* What the click just handled did, given the record of the one before.  A
\* click handled by toggleMenu extends the run of consecutive toggles (n is 1
\* or 2, a third starts a new run; from: the drawer was open before the run).
\* A click that reaches closeMenu is a dismissal (from: the drawer was open
\* before it).  Any other click ends the run.
NextRun(run, ls, target, wasOpen) ==
    IF target = "menuToggle" /\ "toggleMenu" \in ls
    THEN IF run.n = 1
         THEN [n |-> 2, from |-> run.from, dismissed |-> FALSE]
         ELSE [n |-> 1, from |-> wasOpen, dismissed |-> FALSE]
    ELSE IF Dismisses(ls, target)
    THEN [n |-> 0, from |-> wasOpen, dismissed |-> TRUE]
    ELSE NoRun

\* A click on `target`: the target's own listener runs first (line 28, 29 or
\* 108), then the click bubbles to the document listener of line 32.
Click(target) ==
    /\ ScriptFinished
    /\ target \in {"link", "elsewhere"} \/ target \in elems
    /\ LET d0 == IF target = "menuToggle" /\ "toggleMenu" \in listeners
                 THEN toggleMenu(drawer)
                 ELSE IF target = "closeBtn" /\ "closeMenu" \in listeners
                 THEN closeMenu(drawer)
                 ELSE drawer
       IN  drawer' = IF "docClick" \in listeners
                     THEN docClick(d0, target) ELSE d0
    /\ location' = clickLocation(location, listeners, target)
    /\ clickRun' = NextRun(clickRun, listeners, target, drawer.mobileSidebar)
    /\ UNCHANGED <<envVars, docVars, mapVars, perfVars, wireVars, pc,
                   evalReadyState, listeners, seenVisible, errors>>

ClickTrigger    == Click("menuToggle")
ClickClose      == Click("closeBtn")
ClickLink       == Click("link")
ClickBackground == Click("mobileSidebar")
ClickReport     == Click("reportBtn")
ClickElsewhere  == Click("elsewhere")

Next ==
    \/ EvalMarkStart
    \/ EvalDeferredInit
    \/ EvalPerfWire
    \/ EvalReportWire
    \/ DOMContentLoaded
    \/ TimerFires
    \/ VisibilityChange
    \/ LoadEvent
    \/ ClickTrigger
    \/ ClickClose
    \/ ClickLink
    \/ ClickBackground
    \/ ClickReport
    \/ ClickElsewhere

Spec == Init /\ [][Next]_vars

----------------------------------------------------------------------------
\* The timing report over the navigation-timing entries: a page that has
\* every element and capability, with any entry of NavEntries, taken through
\* script evaluation and the two lifecycle events.
InitTiming ==
    /\ elems = ElementIds
    /\ host = [L |-> TRUE, performance |-> TRUE, mark |-> TRUE,
               measure |-> TRUE, getEntriesByType |-> TRUE,
               navEntry |-> TRUE]
    /\ navTiming \in NavEntries
    /\ readyState \in {"loading", "interactive"}
    /\ hidden = FALSE
    /\ pc = "markStart"
    /\ evalReadyState = "unset"
    /\ listeners = {}
    /\ timer = "none"
    /\ drawer = DrawerClosed
    /\ menuWired = "no"
    /\ wireHidden = "unset"
    /\ seenVisible = FALSE
    /\ visChanges = 0
    /\ initMapCalls = 0
    /\ firedVia = {}
    /\ mapFx = NoMapFx
    /\ mapResult = "none"
    /\ marks = {}
    /\ measures = {}
    /\ reports = 0
    /\ location = "index"
    /\ errors = {}
    /\ metrics = {}
    /\ clickRun = NoRun

NextTiming ==
    \/ EvalMarkStart
    \/ EvalDeferredInit
    \/ EvalPerfWire
    \/ EvalReportWire
    \/ DOMContentLoaded
    \/ LoadEvent

SpecTiming == InitTiming /\ [][NextTiming]_vars

----------------------------------------------------------------------------
\* Derived views used by the properties.

DrawerListeners == {"toggleMenu", "closeMenu", "docClick"}

\* The trigger paths of initializeMap that have been registered so far: the
\* timer once set, the visibility listener while registered or once fired.
MapPaths ==
    (IF timer # "none" THEN {"timer"} ELSE {}) \cup
    (IF "visibilitychange" \in listeners \/ "visibilitychange" \in firedVia
     THEN {"visibilitychange"} ELSE {})

MapDependencyMissing == ~host.L \/ "map" \notin elems

----------------------------------------------------------------------------
\* C1: in every reachable state the body scroll-lock is set (overflow
\* "hidden") if and only if the drawer carries its open marker.
C1_ScrollLockMirrorsDrawer ==
    (drawer.overflow = "hidden") <=> drawer.mobileSidebar

\* The drawer has been opened through the wired controller and is locked.
C1_Witness ==
    /\ menuWired = "wired"
    /\ drawer.mobileSidebar
    /\ drawer.overflow = "hidden"

\* C2: in one page load initializeMap is invoked at most once, whatever the
\* readiness at evaluation, the visibility and the order of events; so at
\* most one map instance is created.
C2_MapInitAtMostOnce ==
    /\ initMapCalls <= 1
    /\ mapFx.maps <= 1
    /\ Cardinality(firedVia) <= 1

\* The visibility path has fired, a map exists, and the page has changed
\* visibility again afterwards.
C2_Witness ==
    /\ firedVia = {"visibilitychange"}
    /\ initMapCalls = 1
    /\ mapFx.maps = 1
    /\ visChanges >= 3

\* C3: with the script evaluated in loading readiness, once the
\* DOMContentLoaded callback has run exactly one trigger path is registered:
\* the visibility listener alone if the page was hidden, the timer alone if
\* it was visible; and no other path ever invokes initializeMap.
C3_ExactlyOnePath ==
    (evalReadyState = "loading" /\ wireHidden # "unset") =>
        /\ MapPaths = (IF wireHidden = "hidden" THEN {"visibilitychange"}
                       ELSE {"timer"})
        /\ firedVia \subseteq MapPaths

\* C4: if the page is hidden when map scheduling is wired (in either
\* branch), initializeMap is not invoked before the page has become visible.
C4_HiddenWaitsForVisible ==
    (wireHidden = "hidden" /\ initMapCalls > 0) => seenVisible

\* C5: for every combination of present and absent dependencies, wiring the
\* drawer controller and scheduling and running initializeMap raise no error
\* (the wiring of the timing reporter has no statement that can raise).
C5_MissingDependencyNonFatal ==
    errors \cap {"initializeMenu", "initializeMap"} = {}

\* C6: if the menu trigger or the drawer is absent when initializeMenu runs,
\* no drawer listener is ever attached, no class marker or body style ever
\* changes, and initializeMenu raises no error.
C6_InertWithoutDrawer ==
    (menuWired # "no" /\
     ("menuToggle" \notin elems \/ "mobileSidebar" \notin elems)) =>
        /\ menuWired = "inert"
        /\ listeners \cap DrawerListeners = {}
        /\ drawer = DrawerClosed
        /\ "initializeMenu" \notin errors

\* initializeMenu has run on a page that has the drawer but not its trigger.
C6_Witness ==
    /\ menuWired = "inert"
    /\ "menuToggle" \notin elems
    /\ "mobileSidebar" \in elems
    /\ ScriptFinished

\* C7: once the wiring step has finished (normally or by an error), a
\* drawer listener is attached only if map initialization has been scheduled.
C7_DrawerWiredImpliesMapScheduled ==
    (menuWired # "no" /\ listeners \cap DrawerListeners # {}) =>
        MapPaths # {}

\* C8: a call of initializeMap with the mapping library undefined or the
\* container absent changes nothing: no map, tile layer, marker or popup, no
\* warning, no error, and no other state of the page.
C8_MapGuardNoSideEffects ==
    [][ (initMapCalls' # initMapCalls /\ MapDependencyMissing) =>
            /\ mapResult' = "skipped"
            /\ UNCHANGED <<mapFx, errors, drawer, perfVars, location>>
      ]_vars

\* initializeMap has been invoked with the container present and the library
\* undefined.
C8_Witness ==
    /\ initMapCalls = 1
    /\ ~host.L
    /\ "map" \in elems

\* C9: a call of initializeMap never lets an exception out; when one of its
\* construction statements throws, one warning is logged; and the call leaves
\* the drawer, the timing marks and reports, the navigation target and the
\* drawer, load and redirect listeners as they were.
C9_MapFailureContained ==
    [][ (initMapCalls' # initMapCalls) =>
            /\ errors' = errors
            /\ (mapResult' = "failed" => mapFx'.warns = mapFx.warns + 1)
            /\ (mapResult' # "failed" => mapFx'.warns = mapFx.warns)
            /\ listeners' \ {"visibilitychange"} =
                   listeners \ {"visibilitychange"}
            /\ UNCHANGED <<drawer, perfVars, location>>
      ]_vars

\* Tile-layer construction threw after the map was created; the warning was
\* logged and the drawer, load and redirect listeners are still in place.
C9_Witness ==
    /\ mapResult = "failed"
    /\ mapFx.maps = 1
    /\ mapFx.tiles = 0
    /\ mapFx.warns = 1
    /\ errors = {}
    /\ DrawerListeners \cup {"load", "reportClick"} \subseteq listeners

\* C10: each timing call is made only if its function exists, a missing one
\* is a no-op and raises nothing in the load callback; with no timing
\* capability no mark is recorded and no report is emitted.
C10_TimingCallsGated ==
    /\ "load" \notin errors
    /\ (~host.mark => marks = {})
    /\ (~host.measure => measures = {})
    /\ (~host.getEntriesByType => reports = 0)
    /\ (~host.performance => marks = {} /\ measures = {} /\ reports = 0)

\* C11: when the redirect trigger is absent (line 108 has thrown), the other
\* wiring has been performed all the same: the timing-report listener is
\* registered whenever mark and measure exist, and the deferred block has run
\* - in the already-ready branch initializeMenu has returned and the timer is
\* set; in the loading branch the DOMContentLoaded callback is registered and,
\* once dispatched, runs initializeMenu and schedules the map when it returns.
C11_RedirectAbsenceKeepsWiring ==
    "reportBtn" \in errors =>
        /\ evalReadyState # "unset"
        /\ ("load" \in listeners <=>
                (host.performance /\ host.mark /\ host.measure))
        /\ (menuWired = "wired" => DrawerListeners \subseteq listeners)
        /\ (menuWired \in {"inert", "wired"} => MapPaths # {})
        /\ IF evalReadyState = "loading"
           THEN /\ "DOMContentLoaded" \in listeners
                /\ (readyState # "loading" => menuWired # "no")
           ELSE menuWired \in {"inert", "wired"}

\* The script ended on the missing redirect trigger in loading readiness, and
\* the drawer, the map trigger and the load listener are wired.
C11_Witness ==
    /\ "reportBtn" \in errors
    /\ evalReadyState = "loading"
    /\ menuWired = "wired"
    /\ MapPaths # {}
    /\ "load" \in listeners

\* C12: wiring the redirect when its trigger element is absent attaches
\* nothing and raises no error.
C12_RedirectAbsenceInert ==
    "reportBtn" \notin elems =>
        /\ "reportBtn" \notin errors
        /\ "reportClick" \notin listeners
        /\ pc # "crashed"

\* C13: on a wired controller, whatever the drawer's state, a click on the
\* close button, on an in-drawer link or on the drawer background leaves the
\* drawer closed - both markers removed - with the scroll-lock cleared.
C13_DismissalCloses ==
    clickRun.dismissed =>
        /\ ~drawer.mobileSidebar
        /\ ~drawer.menuToggle
        /\ drawer.overflow = "auto"

\* An open drawer has just been dismissed.
C13_Witness ==
    /\ clickRun.dismissed
    /\ clickRun.from
    /\ ~drawer.mobileSidebar
    /\ drawer.overflow = "auto"

\* C14: two consecutive activations of the drawer trigger return the drawer
\* to the state it had before them: the same open/closed markers, and the
\* scroll-lock set exactly if the drawer was open (cleared from closed).
C14_ToggleTwiceRoundTrip ==
    clickRun.n = 2 =>
        /\ drawer.mobileSidebar = clickRun.from
        /\ drawer.menuToggle = clickRun.from
        /\ (drawer.overflow = "hidden") = clickRun.from
        /\ (~clickRun.from => drawer.overflow = "auto")

\* The trigger has just been activated twice in a row on an open drawer.
C14_Witness ==
    /\ clickRun.n = 2
    /\ clickRun.from
    /\ drawer.mobileSidebar
    /\ drawer.overflow = "hidden"

\* C15: the navigation target changes only by a click on the redirect
\* trigger, it then becomes exactly /html/report.html, and every click on the
\* wired redirect trigger leaves it at that path.
C15_RedirectOnlyByTrigger ==
    [][ /\ (location' # location =>
                ClickReport /\ location' = "/html/report.html")
        /\ ((ClickReport /\ "reportClick" \in listeners) =>
                location' = "/html/report.html")
      ]_vars

\* The redirect trigger has been activated.
C15_Witness ==
    /\ location = "/html/report.html"
    /\ "reportClick" \in listeners

\* C16: each of the six durations of every report logged is a number and is
\* not negative, whatever the navigation-timing entry reads when the load
\* listener runs.
C16_DurationsNonNegative ==
    \A m \in metrics : \A f \in DOMAIN m : m[f].num /\ m[f].v >= 0

\* C17: when the lookup exists and yields no navigation-timing entry, the
\* load callback logs no report, whole or partial, and raises no error.
C17_NoEntryNoReport ==
    (host.getEntriesByType /\ ~host.navEntry /\ "app-end" \in marks) =>
        /\ reports = 0
        /\ metrics = {}
        /\ "load" \notin errors

\* The load callback has run to its end on a host whose lookup yields no
\* entry.
C17_Witness ==
    /\ host.getEntriesByType
    /\ ~host.navEntry
    /\ "app-end" \in marks
    /\ "app-duration" \in measures

\* C18: once script evaluation has ended, whatever the readiness state and
\* the drawer elements present, the load listener is registered if mark and
\* measure exist and the redirect handler is attached if its trigger exists.
C18_TimingAndRedirectAlwaysWired ==
    ScriptFinished =>
        /\ ((host.performance /\ host.mark /\ host.measure) =>
                "load" \in listeners)
        /\ ("reportBtn" \in elems => "reportClick" \in listeners)

\* C19: one activation of the drawer trigger flips the drawer once, all
\* listeners of that click counted: a closed drawer is open after it, an
\* open one closed, the trigger's marker and the scroll-lock with it.
C19_TriggerClickFlipsOnce ==
    clickRun.n = 1 =>
        /\ drawer.mobileSidebar = ~clickRun.from
        /\ drawer.menuToggle = ~clickRun.from
        /\ (drawer.overflow = "hidden") = ~clickRun.from

\* A single click on the trigger, with the document listener attached as
\* well, has just closed an open drawer.
C19_Witness ==
    /\ clickRun.n = 1
    /\ clickRun.from
    /\ ~drawer.mobileSidebar
    /\ "docClick" \in listeners

\* C20: initializeMap is never invoked while the document is in loading
\* readiness, nor before initializeMenu has been attempted.
C20_MapAfterLoadingAndMenu ==
    initMapCalls > 0 =>
        /\ readyState # "loading"
        /\ menuWired # "no"

\* Script evaluated while loading; the timer set by the DOMContentLoaded
\* callback has invoked initializeMap.
C20_Witness ==
    /\ initMapCalls = 1
    /\ evalReadyState = "loading"
    /\ firedVia = {"timer"}
    /\ menuWired = "wired"

====
